---------------------------- MODULE Spec2Model ----------------------------
(***************************************************************************)
(* A model of script.js of ADF_Plotter: the angular distribution function  *)
(* engine (computeADF), the .xyz reader (readXYZFile), the chart holder    *)
(* (plotADF, chartInstance) and the two DOM event listeners.               *)
(*                                                                         *)
(* Numbers.  Lengths (coordinates, box edges, rMax) are carried as         *)
(* integers counting quarters: 4 stands for 1.0, 38 for 9.5.  Every        *)
(* operation computeADF applies to them (difference, product, division     *)
(* followed by Math.round, comparison) is exact in doubles on such values. *)
(* A square root is carried as its radicand (sqrt is monotone, so          *)
(* comparisons are made on squares).  An angle is never computed: acos is  *)
(* monotone decreasing, so floor(theta / dtheta) is found by comparing the *)
(* cosine with the cosine of each bin edge.  The one place where the       *)
(* rounding of doubles moves an angle across a bin edge for the values     *)
(* used here is the straight angle: for some lengths the product of the    *)
(* two rounded square roots of line 86 exceeds |dot|, cosTheta is          *)
(* -0.9999999999999998 and theta 179.9999988 instead of 180 (the table     *)
(* NormProductAbove).  A returned histogram value is the symbolic number   *)
(* num / den, or num / (den * pi) when perPi is TRUE; den = 0 is NaN or    *)
(* Infinity.                                                               *)
(*                                                                         *)
(* Indices.  JavaScript arrays start at 0, TLA+ sequences at 1: particle   *)
(* p of the code is element p + 1 here, bin b is element b + 1.            *)
(***************************************************************************)
EXTENDS Integers, Sequences, FiniteSets, Bags, TLC

VARIABLES
    \* ---- one invocation of computeADF (its arguments, locals, result)
    positions,      \* argument: the array of [x, y, z]
    boxSize,        \* argument: [lx, ly, lz]
    rMax,           \* argument
    numBins,        \* argument
    i,              \* the outer loop's index (next central particle)
    adf,            \* local: the histogram of counts
    delta,          \* local of the last outer iteration
    neighbors,      \* local of the last outer iteration
    pc,             \* "loop" | "done"
    ret,            \* the returned {theta, adf}
    warned,         \* console.warn was called
    callLog,        \* the calls made so far: <<[rMax, numBins, ret], ...>>
    \* ---- the page
    fileSel,        \* fileInput.files[0]: index into Files, 0 when empty
    buttonDisabled, \* plotButton.disabled
    rMaxInput,      \* rMaxInput.value
    numBinsInput,   \* numBinsInput.value
    errorText,      \* #error textContent
    pending,        \* FileReader reads in flight (a bag of requests)
    chartInstance,  \* the module's chart handle: NoChart or a chart
    liveCharts,     \* Chart objects constructed and not destroyed
    lastEvent       \* what happened last: "none", "change", "edit", "click",
                    \* "load:error", "load:plot", "load:replot"

engineVars == <<positions, boxSize, rMax, numBins, i, adf, delta, neighbors,
                pc, ret, warned, callLog>>
pageVars == <<fileSel, buttonDisabled, rMaxInput, numBinsInput, errorText,
              pending, chartInstance, liveCharts, lastEvent>>
vars == <<positions, boxSize, rMax, numBins, i, adf, delta, neighbors,
          pc, ret, warned, callLog,
          fileSel, buttonDisabled, rMaxInput, numBinsInput, errorText,
          pending, chartInstance, liveCharts, lastEvent>>

---------------------------------------------------------------------------
(* Bounds and input sets of the engine's specifications.                   *)

\* The largest number of particles.
MaxN == 3

\* The largest number of computeADF calls on one positions array (SpecCalls).
MaxCalls == 3

\* The largest number of FileReader reads in flight at once (Spec).
MaxPending == 2

\* Particle sites, in quarters: the origin, unit neighbours along x and y,
\* a site a whole small-box edge (and exactly rMax = 2.0) from the origin and
\* opposite to it as seen from (1, 0, 0), a site at distance exactly 1.25
\* with a z component, the site (2, -1, 0) opposite to (0, 1, 0) as seen from
\* (1, 0, 0) at distance sqrt(2), and the pair (0.5, 5, 5), (9.5, 5, 5).
Sites ==
    { <<0, 0, 0>>, <<4, 0, 0>>, <<0, 4, 0>>, <<8, 0, 0>>, <<0, 3, 4>>,
      <<8, -4, 0>>, <<2, 20, 20>>, <<38, 20, 20>> }

\* Box edge lengths, in quarters: the cube of edge 10 and a cell of edges
\* 2, 3 and 10.
BoxSizes == { <<40, 40, 40>>, <<8, 12, 40>> }

\* Cutoff radii, in quarters: 1.25 and 2.0.
RMaxSet == {5, 8}

\* Bin counts; each divides 180, so every bin edge is a whole degree.
NumBinsSet == {1, 4, 180}

\* The sites and bin counts of SpecCalls.
CallSites == { <<0, 0, 0>>, <<4, 0, 0>>, <<0, 4, 0>>, <<8, 0, 0>> }
CallNumBins == {1, 4}

PositionLists(S, n) == UNION { [1..k -> S] : k \in 0..n }

---------------------------------------------------------------------------
(* computeADF, lines 47-106.                                               *)

dot(a, b) == a[1] * b[1] + a[2] * b[2] + a[3] * b[3]

\* Math.floor(n / d) for d > 0, in the place of Math.round.
MathFloor(n, d) == n \div d

\* Math.round(n / d) for d > 0: the nearest integer, a tie going up.
MathRound(n, d) == (2 * n + d) \div (2 * d)

\* line 53: the numBins + 1 bin edges, in degrees.
thetaBin(nb) == [k \in 1..(nb + 1) |-> ((k - 1) * 180) \div nb]

\* line 54
dtheta(nb) == thetaBin(nb)[2] - thetaBin(nb)[1]

\* lines 58-62: the displacement of every particle from particle c.
RawDelta(pos, c) ==
    [p \in 1..Len(pos) |-> [j \in 1..3 |-> pos[p][j] - pos[c][j]]]

\* lines 66-68: one displacement, wrapped per axis.
MinImage(d, box) ==
    [j \in 1..3 |-> d[j] - box[j] * MathRound(d[j], box[j])]

\* lines 65-69
WrapDelta(raw, box) == [p \in 1..Len(raw) |-> MinImage(raw[p], box)]

\* The positions array after lines 58-69 when delta's rows are the rows of
\* positions themselves.
PositionsAfterWrapAliased(pos, wrapped) == wrapped

\* The positions array after lines 58-69: map() on line 58 builds new rows,
\* so the writes of line 67 land in delta alone.
PositionsAfterWrap(pos, wrapped) == pos

\* line 73 with the closed comparisons.
InRangeClosed(dsq, r) == dsq >= 0 /\ r > 0 /\ dsq <= r * r

\* line 73: d > 0 && d < rMax, for d = sqrt(dsq).
InRange(dsq, r) == dsq > 0 /\ r > 0 /\ dsq < r * r

\* lines 71-74: distances, then map to index or -1, then filter.
Neighbors(dl, r) ==
    LET marked == [p \in 1..Len(dl) |->
                     IF InRange(dot(dl[p], dl[p]), r) THEN p ELSE -1]
    IN SelectSeq(marked, LAMBDA idx : idx # -1)

\* floor(10^8 * cos(k degrees)^2) for k = 0..90.
CosSqTable ==
    << 100000000, 99969541, 99878202, 99726094, 99513403, 99240387, 98907380,
       98514786, 98063084, 97552825, 96984631, 96359192, 95677272, 94939702,
       94147379, 93301270, 92402404, 91451878, 90450849, 89400537, 88302222,
       87157241, 85966990, 84732918, 83456530, 82139380, 80783073, 79389262,
       77959645, 76495963, 75000000, 73473578, 71918557, 70336832, 68730329,
       67101007, 65450849, 63781867, 62096094, 60395584, 58682408, 56958655,
       55226423, 53487823, 51744974, 50000000, 48255025, 46512176, 44773576,
       43041344, 41317591, 39604415, 37903905, 36218132, 34549150, 32898992,
       31269670, 29663167, 28081442, 26526421, 25000000, 23504036, 22040354,
       20610737, 19216926, 17860619, 16543469, 15267081, 14033009, 12842758,
       11697777, 10599462, 9549150, 8548121, 7597595, 6698729, 5852620,
       5060297, 4322727, 3640807, 3015368, 2447174, 1936915, 1485213,
       1092619, 759612, 486596, 273905, 121797, 30458, 0 >>

CosSq(deg) == CosSqTable[(IF deg <= 90 THEN deg ELSE 180 - deg) + 1]

\* floor(10^8 * d2 / q) for 0 <= d2 <= q, by long division in two steps of
\* four digits (the products stay below 2^31 for q < 200000).
Ratio8(d2, q) ==
    LET a1 == (d2 * 10000) \div q
        r1 == d2 * 10000 - a1 * q
    IN a1 * 10000 + (r1 * 10000) \div q

\* lines 86-88: theta >= deg, for theta = acos(clamp(dp / sqrt(q))) in
\* degrees and a whole deg in 0..180.  acos is decreasing, so this is
\* cosTheta <= cos(deg), decided on the sign and the square.  Exact for
\* every q < 4096 (vectors shorter than 2.0): there dp^2 / q differs from
\* every cos^2 of a whole degree by more than 10^-8 or equals it.
AngleAtLeast(dp, q, deg) ==
    IF deg = 0 THEN TRUE
    ELSE IF deg < 90 THEN dp <= 0 \/ Ratio8(dp * dp, q) <= CosSq(deg)
    ELSE IF deg = 90 THEN dp <= 0
    ELSE dp < 0 /\ Ratio8(dp * dp, q) >= CosSq(deg)

\* lines 82-86 in doubles: the pairs of squared lengths n1, n2 below 64 with
\* n1 * n2 a square m^2 for which Math.sqrt(n1) * Math.sqrt(n2) is a double
\* above m, so that -m / (normIJ * normIK) is -0.9999999999999998, above -1.
\* (For every other such pair the quotient is -1, or below it and clamped.)
NormProductAbove ==
    { <<2, 2>>, <<2, 8>>, <<2, 32>>, <<2, 50>>, <<5, 5>>, <<5, 20>>,
      <<5, 45>>, <<7, 7>>, <<7, 28>>, <<7, 63>>, <<8, 2>>, <<8, 8>>,
      <<8, 32>>, <<8, 50>>, <<10, 10>>, <<10, 40>>, <<15, 15>>, <<15, 60>>,
      <<19, 19>>, <<20, 5>>, <<20, 20>>, <<20, 45>>, <<28, 7>>, <<28, 28>>,
      <<28, 63>>, <<32, 2>>, <<32, 8>>, <<32, 32>>, <<32, 50>>, <<40, 10>>,
      <<40, 40>>, <<45, 5>>, <<45, 20>>, <<45, 45>>, <<50, 2>>, <<50, 8>>,
      <<50, 32>>, <<50, 50>>, <<51, 51>>, <<58, 58>>, <<60, 15>>, <<60, 60>>,
      <<63, 7>>, <<63, 28>>, <<63, 63>> }

\* lines 82-88 for opposite vectors: cosTheta comes out above -1, and theta
\* is 179.9999988 or 179.9999991 degrees.
StraightAngleMissed(vecIJ, vecIK) ==
    LET dp == dot(vecIJ, vecIK)
    IN /\ dp < 0
       /\ dp * dp = dot(vecIJ, vecIJ) * dot(vecIK, vecIK)
       /\ <<dot(vecIJ, vecIJ), dot(vecIK, vecIK)>> \in NormProductAbove

\* lines 86-89: floor(theta / dth), the number of bin edges k * dth, k >= 1,
\* that theta has reached.
BinIndex(vecIJ, vecIK, dth) ==
    LET dp == dot(vecIJ, vecIK)
        q == dot(vecIJ, vecIJ) * dot(vecIK, vecIK)
    IN IF StraightAngleMissed(vecIJ, vecIK)
       THEN (180 \div dth) - 1
       ELSE Cardinality({k \in 1..(180 \div dth) :
                            AngleAtLeast(dp, q, k * dth)})

\* line 91: adf[binIndex] += 2 (bin b is element b + 1).
Increment(h, b) == [h EXCEPT ![b + 1] = @ + 2]

\* lines 78-92: the body of the pair loop for neighbours j and k.
AddAngle(h, vecIJ, vecIK, nb) ==
    IF dot(vecIJ, vecIJ) = 0 \/ dot(vecIK, vecIK) = 0 THEN h
    ELSE LET binIndex == BinIndex(vecIJ, vecIK, dtheta(nb))
         IN IF binIndex >= 0 /\ binIndex < nb THEN Increment(h, binIndex)
            ELSE h

\* line 77: kIdx starts at jIdx + 1.
FirstK(jIdx) == jIdx + 1

RECURSIVE PairLoop(_, _, _, _, _, _)
\* lines 76-94: the two nested loops over the neighbour list.
PairLoop(h, nbrs, dl, nb, jIdx, kIdx) ==
    IF jIdx > Len(nbrs) THEN h
    ELSE IF kIdx > Len(nbrs)
         THEN PairLoop(h, nbrs, dl, nb, jIdx + 1, FirstK(jIdx + 1))
         ELSE PairLoop(AddAngle(h, dl[nbrs[jIdx]], dl[nbrs[kIdx]], nb),
                       nbrs, dl, nb, jIdx, kIdx + 1)

\* lines 58-94: one iteration of the outer loop, for central particle c.
Central(pos, h, box, r, nb, c) ==
    LET dl == WrapDelta(RawDelta(pos, c), box)
        nbrs == Neighbors(dl, r)
    IN [pos |-> PositionsAfterWrap(pos, dl),
        adf |-> PairLoop(h, nbrs, dl, nb, 1, FirstK(1)),
        delta |-> dl,
        neighbors |-> nbrs]

RECURSIVE SumRange(_, _, _)
\* The sum of s[lo..hi], halving the range (integer addition is associative,
\* so the order of line 97's reduce does not matter).
SumRange(s, lo, hi) ==
    IF lo > hi THEN 0
    ELSE IF lo = hi THEN s[lo]
    ELSE LET mid == (lo + hi) \div 2
         IN SumRange(s, lo, mid) + SumRange(s, mid + 1, hi)

\* line 97: adf.reduce((sum, val) => sum + val, 0)
SumSeq(s) == SumRange(s, 1, Len(s))

\* line 98 with the guard left out.
NoAnglesNever(total) == FALSE

\* line 98
NoAngles(total) == total = 0

\* line 100 and 105 without the slice.
ThetaUnsliced(nb) == thetaBin(nb)

\* lines 100, 105: thetaBin.slice(0, -1)
Theta(nb) == SubSeq(thetaBin(nb), 1, Len(thetaBin(nb)) - 1)

\* line 100: the raw histogram, returned as it is.
RawValue(count) == [num |-> count, den |-> 1, perPi |-> FALSE]

\* line 104 dividing by dtheta in degrees.
DensityDegrees(count, total, nb) ==
    [num |-> count, den |-> total * dtheta(nb), perPi |-> FALSE]

\* lines 103-104: count / (totalCounts * dthetaRad), where
\* dthetaRad = dtheta * pi / 180.
Density(count, total, nb) ==
    [num |-> count * 180, den |-> total * dtheta(nb), perPi |-> TRUE]

\* lines 97-105: what computeADF returns for the histogram h.
Result(h, nb) ==
    LET totalCounts == SumSeq(h)
    IN IF NoAngles(totalCounts)
       THEN [theta |-> Theta(nb),
             adf |-> [b \in 1..Len(h) |-> RawValue(h[b])]]
       ELSE [theta |-> Theta(nb),
             adf |-> [b \in 1..Len(h) |-> Density(h[b], totalCounts, nb)]]

\* line 55: new Array(numBins).fill(0)
ZeroHistogram(nb) == [b \in 1..nb |-> 0]

RECURSIVE OuterLoop(_, _, _, _, _, _)
\* lines 57-95
OuterLoop(pos, h, box, r, nb, c) ==
    IF c > Len(pos) THEN [pos |-> pos, adf |-> h]
    ELSE LET s == Central(pos, h, box, r, nb, c)
         IN OuterLoop(s.pos, s.adf, box, r, nb, c + 1)

\* lines 51-106: the whole call; pos is the positions array as the call
\* leaves it.
computeADF(pos, box, r, nb) ==
    LET s == OuterLoop(pos, ZeroHistogram(nb), box, r, nb, 1)
    IN [pos |-> s.pos, ret |-> Result(s.adf, nb),
        warned |-> NoAngles(SumSeq(s.adf))]

NoRet == [theta |-> <<>>, adf |-> <<>>]
NoChart == [live |-> FALSE, theta |-> <<>>, adf |-> <<>>]

\* The page's variables, where a specification of the engine leaves them.
PageIdle ==
    /\ fileSel = 0
    /\ buttonDisabled = TRUE
    /\ rMaxInput = [txt |-> "", isNum |-> FALSE, q |-> 0]
    /\ numBinsInput = [txt |-> "", isNum |-> FALSE, q |-> 0]
    /\ errorText = ""
    /\ pending = EmptyBag
    /\ chartInstance = NoChart
    /\ liveCharts = 0
    /\ lastEvent = "none"

---------------------------------------------------------------------------
(* SpecADF: one call of computeADF, one outer iteration per step.          *)

InitADF ==
    /\ positions \in PositionLists(Sites, MaxN)
    /\ boxSize \in BoxSizes
    /\ rMax \in RMaxSet
    /\ numBins \in NumBinsSet
    /\ i = 1
    /\ adf = ZeroHistogram(numBins)
    /\ delta = <<>>
    /\ neighbors = <<>>
    /\ pc = "loop"
    /\ ret = NoRet
    /\ warned = FALSE
    /\ callLog = <<>>
    /\ PageIdle

\* lines 57-95, one pass of the outer loop
Iterate ==
    /\ pc = "loop"
    /\ i <= Len(positions)
    /\ LET s == Central(positions, adf, boxSize, rMax, numBins, i)
       IN /\ positions' = s.pos
          /\ adf' = s.adf
          /\ delta' = s.delta
          /\ neighbors' = s.neighbors
    /\ i' = i + 1
    /\ UNCHANGED <<boxSize, rMax, numBins, pc, ret, warned, callLog>>
    /\ UNCHANGED pageVars

\* lines 97-101
ReturnZero ==
    /\ pc = "loop"
    /\ i > Len(positions)
    /\ NoAngles(SumSeq(adf))
    /\ warned' = TRUE
    /\ ret' = Result(adf, numBins)
    /\ pc' = "done"
    /\ UNCHANGED <<positions, boxSize, rMax, numBins, i, adf, delta,
                   neighbors, callLog>>
    /\ UNCHANGED pageVars

\* lines 97-98, 103-105
ReturnNormalized ==
    /\ pc = "loop"
    /\ i > Len(positions)
    /\ ~NoAngles(SumSeq(adf))
    /\ ret' = Result(adf, numBins)
    /\ pc' = "done"
    /\ UNCHANGED <<positions, boxSize, rMax, numBins, i, adf, delta,
                   neighbors, warned, callLog>>
    /\ UNCHANGED pageVars

NextADF == Iterate \/ ReturnZero \/ ReturnNormalized

SpecADF == InitADF /\ [][NextADF]_vars

---------------------------------------------------------------------------
(* The claims about computeADF, checked under SpecADF.                     *)

N == Len(positions)
Range(f) == { f[x] : x \in DOMAIN f }
MinOf(S) == CHOOSE x \in S : \A y \in S : x <= y

\* The periodic images considered on one axis (a raw difference of at most
\* 42 quarters over a box edge of at least 8).
Images == -6..6

\* The squared distance between a and the nearest periodic image of c: per
\* axis, the least square of (a - c) - n * box over the images n.
ImageDistSq(a, c, box) ==
    LET axis(j) == MinOf({ (a[j] - c[j] - n * box[j]) * (a[j] - c[j] - n * box[j])
                           : n \in Images })
    IN axis(1) + axis(2) + axis(3)

\* The particles at a minimum-image distance d of particle c with
\* 0 < d < rMax.
NeighborSet(c) ==
    { p \in 1..N : LET dsq == ImageDistSq(positions[p], positions[c], boxSize)
                   IN dsq > 0 /\ dsq < rMax * rMax }

\* The central particle of the last outer iteration.
central == i - 1

\* C1: on both return paths theta and adf have length numBins, theta[0] = 0
\* and theta[b] = b * 180 / numBins for every bin b, strictly increasing.
C1_ThetaEdges ==
    pc = "done" =>
        /\ Len(ret.theta) = numBins
        /\ Len(ret.adf) = numBins
        /\ ret.theta[1] = 0
        /\ \A b \in 0..(numBins - 1) : ret.theta[b + 1] * numBins = b * 180
        /\ \A b \in 1..(numBins - 1) : ret.theta[b] < ret.theta[b + 1]

C1_Witness == pc = "done" /\ ~warned /\ numBins = 180 /\ N = 3

\* C4: the neighbour list of the central particle holds exactly the
\* particles at a minimum-image distance d with 0 < d < rMax, in increasing
\* index order; the particle itself, a particle at distance 0 and a particle
\* at distance exactly rMax are not in it.
C4_NeighborList ==
    (pc = "loop" /\ i > 1) =>
        /\ \A a \in 1..Len(neighbors) : \A b \in 1..Len(neighbors) :
               a < b => neighbors[a] < neighbors[b]
        /\ Range(neighbors) = NeighborSet(central)
        /\ central \notin Range(neighbors)
        /\ \A p \in 1..N :
               LET dsq == ImageDistSq(positions[p], positions[central], boxSize)
               IN (dsq = 0 \/ dsq = rMax * rMax) => p \notin Range(neighbors)

C4_Witness ==
    /\ pc = "loop" /\ i > 1
    /\ Len(neighbors) = 1
    /\ \E p \in 1..N :
           ImageDistSq(positions[p], positions[central], boxSize) = rMax * rMax

\* The wrapped displacement of particle p from particle c.
Displacement(p, c) ==
    MinImage([j \in 1..3 |-> positions[p][j] - positions[c][j]], boxSize)

\* The unordered pairs {j, k} of S, each once, as <<j, k>> with j < k.
PairsOf(S) == { pr \in S \X S : pr[1] < pr[2] }

\* floor(theta / dtheta) for the angle theta between u and v: the number of
\* the edges dtheta, 2 dtheta, ..., 180 that theta has reached.
AngleBin(u, v) ==
    Cardinality({ k \in 1..numBins :
                    AngleAtLeast(dot(u, v), dot(u, u) * dot(v, v),
                                 k * (180 \div numBins)) })

\* The (central particle, neighbour pair) triples of the centrals done so
\* far, each with the bin its angle falls in.
AngleTriples ==
    UNION { UNION { { <<c, pr[1], pr[2],
                        AngleBin(Displacement(pr[1], c), Displacement(pr[2], c))>>
                      : pr \in PairsOf(S) }
                    : S \in {NeighborSet(c)} }
            : c \in 1..(i - 1) }

\* The worked example: the origin with (1,0,0) and (0,1,0), rMax = 1.25.
IsAngleExample ==
    /\ N = 3
    /\ Range(positions) = { <<0, 0, 0>>, <<4, 0, 0>>, <<0, 4, 0>> }
    /\ boxSize = <<40, 40, 40>>
    /\ rMax = 5
    /\ numBins = 180

IsWrapPair(a, b) == {a, b} = { <<2, 20, 20>>, <<38, 20, 20>> }

\* C6: every wrapped displacement component is at most half the box edge in
\* absolute value and congruent to the raw difference modulo the box edge;
\* with box 10, rMax 2.0, (0.5, 5, 5) and (9.5, 5, 5) are neighbours of each
\* other at distance 1.0.
C6_MinimumImage ==
    (pc = "loop" /\ i > 1) =>
        \A p \in 1..N :
            /\ \A j \in 1..3 :
                   /\ 2 * delta[p][j] <= boxSize[j]
                   /\ -2 * delta[p][j] <= boxSize[j]
                   /\ (delta[p][j] - (positions[p][j] - positions[central][j]))
                          % boxSize[j] = 0
            /\ ( /\ IsWrapPair(positions[p], positions[central])
                 /\ boxSize = <<40, 40, 40>>
                 /\ rMax = 8 ) =>
                   /\ p \in Range(neighbors)
                   /\ dot(delta[p], delta[p]) = 16

C6_Witness ==
    /\ pc = "loop" /\ i > 1
    /\ boxSize = <<40, 40, 40>> /\ rMax = 8
    /\ positions[central] = <<2, 20, 20>>
    /\ \E p \in 1..N : positions[p] = <<38, 20, 20>> /\ p \in Range(neighbors)

\* C7: when the total of the bins is > 0, adf[b] is
\* count[b] / (total * dthetaRad), dthetaRad being pi / numBins, so the sum of
\* adf[b] * dthetaRad is 1, and no adf[b] is negative.
C7_Normalized ==
    (pc = "done" /\ SumSeq(adf) > 0) =>
        LET total == SumSeq(adf)
            nums == [b \in 1..numBins |-> ret.adf[b].num]
        IN /\ \A b \in 1..numBins :
                  /\ ret.adf[b].perPi
                  /\ ret.adf[b].den > 0
                  /\ ret.adf[b].num >= 0
                  /\ ret.adf[b].den = ret.adf[1].den
                  \* num / (den * pi) = count * numBins / (total * pi)
                  /\ ret.adf[b].num * total = adf[b] * numBins * ret.adf[b].den
           \* sum over b of (num / (den * pi)) * (pi / numBins) = 1
           /\ SumSeq(nums) = ret.adf[1].den * numBins

C7_Witness ==
    /\ pc = "done" /\ SumSeq(adf) > 0
    /\ Cardinality({ b \in 1..numBins : adf[b] > 0 }) >= 2

\* C8: with fewer than 3 particles the call takes the total = 0 path and
\* returns numBins zeros, none of them NaN; whenever the total is 0 the
\* returned adf is the raw all-zero histogram.
C8_NoAngles ==
    (pc = "done" /\ (N < 3 \/ SumSeq(adf) = 0)) =>
        /\ warned
        /\ Len(ret.adf) = numBins
        /\ \A b \in 1..numBins :
               /\ adf[b] = 0
               /\ ret.adf[b] = [num |-> 0, den |-> 1, perPi |-> FALSE]

C8_Witness == pc = "done" /\ N = 2 /\ Len(neighbors) = 1 /\ warned

---------------------------------------------------------------------------
(* SpecCalls: repeated whole calls of computeADF on one positions array    *)
(* and one boxSize array, the cutoff and the bin count chosen per call.    *)

InitCalls ==
    /\ positions \in PositionLists(CallSites, MaxN)
    /\ boxSize \in BoxSizes
    /\ rMax = 0
    /\ numBins = 0
    /\ i = 1
    /\ adf = <<>>
    /\ delta = <<>>
    /\ neighbors = <<>>
    /\ pc = "done"
    /\ ret = NoRet
    /\ warned = FALSE
    /\ callLog = <<>>
    /\ PageIdle

\* lines 51-106, a whole call; the log keeps what the caller passed, what
\* its arrays hold afterwards and what came back.
Call(r, nb) ==
    /\ Len(callLog) < MaxCalls
    /\ LET out == computeADF(positions, boxSize, r, nb)
       IN /\ positions' = out.pos
          /\ ret' = out.ret
          /\ warned' = out.warned
          /\ callLog' = Append(callLog,
                 [positions |-> positions, boxSize |-> boxSize, rMax |-> r,
                  numBins |-> nb, after |-> out.pos, ret |-> out.ret])
    /\ rMax' = r
    /\ numBins' = nb
    /\ UNCHANGED <<boxSize, i, adf, delta, neighbors, pc>>
    /\ UNCHANGED pageVars

NextCalls == \E r \in RMaxSet : \E nb \in CallNumBins : Call(r, nb)

SpecCalls == InitCalls /\ [][NextCalls]_vars

---------------------------------------------------------------------------
(* The page: readXYZFile, plotADF and the event listeners.                 *)

\* A piece of text and the number JavaScript reads from it: isNum is FALSE
\* when parseFloat gives NaN, q is the number in quarters.
Tok(txt, isNum, q) == [txt |-> txt, isNum |-> isNum, q |-> q]
Word(txt) == Tok(txt, FALSE, 0)

\* A parsed number: NaN, or the value v.
NaN == [nan |-> TRUE, v |-> 0]
Num(v) == [nan |-> FALSE, v |-> v]

\* parseFloat: the value, in quarters.
ParseFloat(tok) == IF tok.isNum THEN Num(tok.q) ELSE NaN

\* parseInt: the integer part, truncated toward zero (a count, not quarters).
ParseInt(tok) ==
    IF ~tok.isNum THEN NaN
    ELSE IF tok.q >= 0 THEN Num(tok.q \div 4)
    ELSE Num(-((-tok.q) \div 4))

\* What the user may have typed into rMaxInput and numBinsInput.
RMaxTexts == { Tok("", FALSE, 0), Tok("0", TRUE, 0), Tok("2.0", TRUE, 8) }
NumBinsTexts ==
    { Tok("", FALSE, 0), Tok("0.75", TRUE, 3), Tok("2.5", TRUE, 10) }

\* The lines of a file, each split at white space (line 9, line 33).
CountLine == << Tok("3", TRUE, 12) >>
HeaderLine ==
    << Word("Timestep"), Tok("0", TRUE, 0), Word("box"), Tok("0", TRUE, 0),
       Tok("10", TRUE, 40), Tok("0", TRUE, 0), Tok("10", TRUE, 40),
       Tok("0", TRUE, 0), Tok("10", TRUE, 40) >>
Atom(x, y, z) ==
    << Word("Ar"), Tok("x", TRUE, x), Tok("y", TRUE, y), Tok("z", TRUE, z) >>

\* A well-formed file: the origin, (1, 0, 0) and (0, 1, 0) in a box of 10.
GoodFile ==
    << CountLine, HeaderLine, Atom(0, 0, 0), Atom(4, 0, 0), Atom(0, 4, 0) >>
\* The second line starts with another word.
NoTimestepFile ==
    << CountLine, <<Word("Frame")>> \o Tail(HeaderLine),
       Atom(0, 0, 0), Atom(4, 0, 0), Atom(0, 4, 0) >>
\* The second line has no 'box'.
NoBoxFile ==
    << CountLine, SubSeq(HeaderLine, 1, 2),
       Atom(0, 0, 0), Atom(4, 0, 0), Atom(0, 4, 0) >>
\* Five fields follow 'box'.
ShortBoxFile ==
    << CountLine, SubSeq(HeaderLine, 1, 8),
       Atom(0, 0, 0), Atom(4, 0, 0), Atom(0, 4, 0) >>
\* The second particle line has three fields.
ShortLineFile ==
    << CountLine, HeaderLine, Atom(0, 0, 0),
       SubSeq(Atom(4, 0, 0), 1, 3), Atom(0, 4, 0) >>
\* Three particles announced, two lines present, no final line break.
MissingLineFile ==
    << CountLine, HeaderLine, Atom(0, 0, 0), Atom(4, 0, 0) >>

Files == << GoodFile, NoTimestepFile, NoBoxFile, ShortBoxFile, ShortLineFile,
            MissingLineFile >>

\* Array.prototype.indexOf on a line's words: the first place, or 0 for -1.
IndexOf(line, txt) ==
    IF \E k \in 1..Len(line) : line[k].txt = txt
    THEN MinOf({ k \in 1..Len(line) : line[k].txt = txt })
    ELSE 0

\* line 11 without the throw.
TimestepCheckSkipped(boxLine) == FALSE

\* line 11: the second line does not start with 'Timestep'.
TimestepMissing(boxLine) == boxLine[1].txt # "Timestep"

\* lines 31-37 for the particle lines from place k on; a line with fewer
\* than 4 fields adds nothing.  (The lines are known to exist.)
RECURSIVE ReadPositions(_, _, _)
ReadPositions(lines, k, last) ==
    IF k > last THEN <<>>
    ELSE LET parts == lines[k]
         IN (IF Len(parts) >= 4
             THEN << [j \in 1..3 |-> ParseFloat(parts[j + 1]).v] >>
             ELSE <<>>)
            \o ReadPositions(lines, k + 1, last)

Thrown(msg) == [ok |-> FALSE, error |-> msg, positions |-> <<>>,
                boxSize |-> <<>>]
TypeErrorText == "Cannot read properties of undefined (reading 'trim')"

\* lines 6-39: what the try block of reader.onload comes to: an exception
\* with its message, or the arguments of the callback.
readXYZFile(lines) ==
    LET numParticles == ParseInt(lines[1][1])
    IN IF Len(lines) < 2 THEN Thrown(TypeErrorText)
       ELSE LET boxLine == lines[2]
                boxIndex == IndexOf(boxLine, "box")
                boxData == [k \in 1..(IF Len(boxLine) - boxIndex < 6
                                      THEN Len(boxLine) - boxIndex ELSE 6) |->
                              ParseFloat(boxLine[boxIndex + k]).v]
                last == IF numParticles.nan THEN 2 ELSE 2 + numParticles.v
            IN IF TimestepMissing(boxLine)
               THEN Thrown("Expected 'Timestep' in second line of .xyz file")
               ELSE IF boxIndex = 0
               THEN Thrown("'box' keyword not found in second line of .xyz file")
               ELSE IF Len(boxData) < 6
               THEN Thrown("Insufficient data for box dimensions after 'box' keyword")
               ELSE IF last > Len(lines)
               THEN Thrown(TypeErrorText)
               ELSE [ok |-> TRUE, error |-> "",
                     positions |-> ReadPositions(lines, 3, last),
                     boxSize |-> << boxData[2] - boxData[1],
                                    boxData[4] - boxData[3],
                                    boxData[6] - boxData[5] >>]

\* lines 111-113 left out: the old chart is not destroyed.
LiveAfterPlotNoDestroy(chart, live) == live + 1

\* lines 111-115: the Chart objects alive after plotADF.
LiveAfterPlot(chart, live) == (IF chart.live THEN live - 1 ELSE live) + 1

\* lines 115-150: the new chart, with the theta and adf it was given.
NewChart(theta, data) == [live |-> TRUE, theta |-> theta, adf |-> data]

\* line 170 accepting 0.
RMaxInvalidStrict(r) == r.nan \/ r.v < 0

\* line 170
RMaxInvalid(r) == r.nan \/ r.v <= 0

\* line 175
NumBinsInvalid(nb) == nb.nan \/ nb.v < 1

\* The engine's variables, where the page's specification leaves them.
EngineIdle ==
    /\ positions = <<>>
    /\ boxSize = <<>>
    /\ rMax = 0
    /\ numBins = 0
    /\ i = 1
    /\ adf = <<>>
    /\ delta = <<>>
    /\ neighbors = <<>>
    /\ pc = "done"
    /\ ret = NoRet
    /\ warned = FALSE
    /\ callLog = <<>>

\* The page as loaded; what index.html sets (the button's disabled flag, the
\* inputs' defaults) is not part of script.js and is left open.
Init ==
    /\ EngineIdle
    /\ fileSel = 0
    /\ buttonDisabled \in BOOLEAN
    /\ rMaxInput \in RMaxTexts
    /\ numBinsInput \in NumBinsTexts
    /\ errorText = ""
    /\ pending = EmptyBag
    /\ chartInstance = NoChart
    /\ liveCharts = 0
    /\ lastEvent = "none"

\* lines 154-158: the user picks file f, or empties the selection (f = 0).
FileChange(f) ==
    /\ f # fileSel
    /\ fileSel' = f
    /\ buttonDisabled' = (IF f = 0 THEN buttonDisabled ELSE FALSE)
    /\ lastEvent' = "change"
    /\ UNCHANGED <<rMaxInput, numBinsInput, errorText, pending,
                   chartInstance, liveCharts>>
    /\ UNCHANGED engineVars

\* The user types into rMaxInput (no listener of script.js runs).
EditRMax(t) ==
    /\ t # rMaxInput
    /\ rMaxInput' = t
    /\ lastEvent' = "edit"
    /\ UNCHANGED <<fileSel, buttonDisabled, numBinsInput, errorText, pending,
                   chartInstance, liveCharts>>
    /\ UNCHANGED engineVars

\* The user types into numBinsInput (no listener of script.js runs).
EditNumBins(t) ==
    /\ t # numBinsInput
    /\ numBinsInput' = t
    /\ lastEvent' = "edit"
    /\ UNCHANGED <<fileSel, buttonDisabled, rMaxInput, errorText, pending,
                   chartInstance, liveCharts>>
    /\ UNCHANGED engineVars

\* lines 160-185: a click on the enabled plot button.
Click ==
    /\ ~buttonDisabled
    /\ LET r == ParseFloat(rMaxInput)
           nb == ParseInt(numBinsInput)
       IN IF fileSel = 0
          THEN /\ errorText' = "Please select a file first."
               /\ pending' = pending
          ELSE IF RMaxInvalid(r)
          THEN /\ errorText' = "Please enter a valid radius (rMax > 0)."
               /\ pending' = pending
          ELSE IF NumBinsInvalid(nb)
          THEN \* (the page's text has the sign for "at least" here)
               /\ errorText' = "Please enter a valid number of bins (numBins >= 1)."
               /\ pending' = pending
          ELSE \* lines 180, 3-5, 44: the read starts; onload runs later
               /\ BagCardinality(pending) < MaxPending
               /\ errorText' = errorText
               /\ pending' = pending (+) SetToBag({[file |-> fileSel,
                                  rMax |-> r.v, numBins |-> nb.v]})
    /\ lastEvent' = "click"
    /\ UNCHANGED <<fileSel, buttonDisabled, rMaxInput, numBinsInput,
                   chartInstance, liveCharts>>
    /\ UNCHANGED engineVars

\* lines 5-43 with the callback of lines 180-184: the read of req ends.
OnLoad(req) ==
    /\ BagIn(req, pending)
    /\ pending' = pending (-) SetToBag({req})
    /\ LET parsed == readXYZFile(Files[req.file])
       IN IF ~parsed.ok
          THEN \* line 41
               /\ errorText' = parsed.error
               /\ lastEvent' = "load:error"
               /\ UNCHANGED <<chartInstance, liveCharts>>
          ELSE LET out == computeADF(parsed.positions, parsed.boxSize,
                                     req.rMax, req.numBins)
               IN /\ chartInstance' = NewChart(out.ret.theta, out.ret.adf)
                  /\ liveCharts' = LiveAfterPlot(chartInstance, liveCharts)
                  /\ errorText' = ""
                  /\ lastEvent' = (IF chartInstance.live THEN "load:replot"
                                   ELSE "load:plot")
    /\ UNCHANGED <<fileSel, buttonDisabled, rMaxInput, numBinsInput>>
    /\ UNCHANGED engineVars

Next ==
    \/ \E f \in 0..Len(Files) : FileChange(f)
    \/ \E t \in RMaxTexts : EditRMax(t)
    \/ \E t \in NumBinsTexts : EditNumBins(t)
    \/ Click
    \/ \E req \in BagToSet(pending) : OnLoad(req)

Spec == Init /\ [][Next]_vars

---------------------------------------------------------------------------
(* The claims about the page, checked under Spec.                          *)

ValidationMessages ==
    { "Please select a file first.",
      "Please enter a valid radius (rMax > 0).",
      "Please enter a valid number of bins (numBins >= 1)." }

\* What the click is given is not valid: no file, rMax NaN or <= 0, numBins
\* NaN or < 1.
ClickInputInvalid ==
    \/ fileSel = 0
    \/ ParseFloat(rMaxInput).nan
    \/ ParseFloat(rMaxInput).v <= 0
    \/ ParseInt(numBinsInput).nan
    \/ ParseInt(numBinsInput).v < 1

\* C2: a click with no file selected, or rMax NaN or <= 0, or numBins NaN or
\* < 1, sets an error message and starts no read; the chart stays as it is.
C2_InvalidClickRejected ==
    [][ (lastEvent' = "click" /\ ClickInputInvalid) =>
            /\ errorText' \in ValidationMessages
            /\ pending' = pending
            /\ chartInstance' = chartInstance
            /\ liveCharts' = liveCharts ]_vars

C2_Witness ==
    /\ lastEvent = "click"
    /\ fileSel # 0
    /\ rMaxInput.txt = "0"
    /\ errorText = "Please enter a valid radius (rMax > 0)."
    /\ chartInstance.live
    /\ BagCardinality(pending) >= 1

LoadEvents == { "load:error", "load:plot", "load:replot" }

\* The second line does not start with 'Timestep', or has no 'box'.
HeaderTokenMissing(lines) ==
    \/ lines[2][1].txt # "Timestep"
    \/ \A k \in 1..Len(lines[2]) : lines[2][k].txt # "box"

\* Fewer than 6 fields follow the first 'box' of the second line.
BoxFieldsShort(lines) ==
    \E k \in 1..Len(lines[2]) :
        /\ lines[2][k].txt = "box"
        /\ \A m \in 1..(k - 1) : lines[2][m].txt # "box"
        /\ Len(lines[2]) - k < 6

\* The particle lines the first line announces.
ParticleLines(lines) ==
    LET n == ParseInt(lines[1][1])
    IN IF n.nan THEN {} ELSE 3..(2 + n.v)

\* One of the announced particle lines is there with fewer than 4 fields.
ParticleLineShort(lines) ==
    \E k \in ParticleLines(lines) : k <= Len(lines) /\ Len(lines[k]) < 4

\* The read that ends in this step is the read of req.
LoadOf(req) ==
    /\ lastEvent' \in LoadEvents
    /\ BagIn(req, pending)
    /\ pending' = pending (-) SetToBag({req})

\* The callback did not run: a message is shown and the chart is untouched.
Rejected ==
    /\ errorText' # ""
    /\ chartInstance' = chartInstance
    /\ liveCharts' = liveCharts

\* C3 as stated: a file malformed in any of the three ways ends in an error
\* message and the callback is not invoked.
C3_MalformedRejected ==
    [][ \A req \in BagToSet(pending) :
            ( /\ LoadOf(req)
              /\ \/ HeaderTokenMissing(Files[req.file])
                 \/ BoxFieldsShort(Files[req.file])
                 \/ ParticleLineShort(Files[req.file]) )
            => Rejected ]_vars

\* The positions of the announced particle lines that have 4 fields or more.
KeptPositions(lines) ==
    LET kept == SelectSeq([k \in 1..Cardinality(ParticleLines(lines)) |->
                              lines[k + 2]],
                          LAMBDA parts : Len(parts) >= 4)
    IN [k \in 1..Len(kept) |-> [j \in 1..3 |-> kept[k][j + 1].q]]

\* The box edges the second line gives (hi - lo per axis).
BoxOf(lines) ==
    LET b == MinOf({ k \in 1..Len(lines[2]) : lines[2][k].txt = "box" })
    IN [j \in 1..3 |-> lines[2][b + 2 * j].q - lines[2][b + 2 * j - 1].q]

\* C3 as amended: a second line without 'Timestep' at its start or without
\* 'box', or with fewer than 6 fields after 'box', ends in an error message
\* and the callback is not invoked; a particle line with fewer than 4 fields
\* is skipped without a message, and when nothing else is wrong the callback
\* runs on the remaining positions and the result is plotted.
C3_HeaderRejectedShortLineSkipped ==
    [][ \A req \in BagToSet(pending) :
            LET lines == Files[req.file]
            IN /\ ( /\ LoadOf(req)
                    /\ (HeaderTokenMissing(lines) \/ BoxFieldsShort(lines)) )
                  => Rejected
               /\ ( /\ LoadOf(req)
                    /\ ParticleLineShort(lines)
                    /\ ~HeaderTokenMissing(lines)
                    /\ ~BoxFieldsShort(lines)
                    /\ \A k \in ParticleLines(lines) : k <= Len(lines) )
                  => /\ errorText' = ""
                     /\ chartInstance'.live
                     /\ LET out == computeADF(KeptPositions(lines), BoxOf(lines),
                                              req.rMax, req.numBins)
                        IN /\ chartInstance'.theta = out.ret.theta
                           /\ chartInstance'.adf = out.ret.adf
                           /\ Len(KeptPositions(lines)) < Cardinality(ParticleLines(lines))
          ]_vars

C3_Witness ==
    /\ lastEvent = "load:error"
    /\ errorText = "Expected 'Timestep' in second line of .xyz file"
    /\ chartInstance.live

\* C10: at most one chart made by plotADF is alive, and it is the one
\* chartInstance holds, whatever the order in which the reads end.
C10_OneLiveChart ==
    /\ liveCharts <= 1
    /\ chartInstance.live <=> liveCharts = 1

C10_Witness ==
    /\ lastEvent = "load:replot"
    /\ liveCharts = 1
    /\ BagCardinality(pending) >= 1

===========================================================================
